---- MODULE Spec2Model ----
(***************************************************************************)
(* A model of P3DSession (direct/src/plugin/p3dSession.cxx): one Session   *)
(* owns a worker process (p3dpython), the pipes to it, a queue of commands *)
(* not yet delivered, a registry of the instances running in it and a read *)
(* thread.  The controller thread calls start_instance, terminate_instance,*)
(* the download completion (start_p3dpython) and the destructor; the read  *)
(* thread runs rt_thread_run and rt_terminate.                             *)
(*                                                                         *)
(* wire[s] is the sequence of documents the Session inserts into           *)
(* _pipe_write; whether the operating system delivers them is outside the  *)
(* model.  assert() is modelled as compiled in: a failing assertion aborts *)
(* the process and nothing runs afterwards.                                *)
(***************************************************************************)
EXTENDS Naturals, Sequences, FiniteSets

\* ------------------------------------------------------------ bounds

\* Most commands submitted (start_instance and terminate_instance calls)
\* in a run.
MaxCmds == 3

\* ------------------------------------------------- program constants

PS_init == "PS_init"
PS_running == "PS_running"

\* _python_root_dir, set by the constructor.
PythonRootDir == "C:/p3drun"

\* The exit code TerminateProcess gives the worker.
TerminateExitCode == 2

\* The variables start_p3dpython forwards from its own environment, in
\* the order of keep[] (the build is the _WIN32 one: the function does not
\* compile without it).
Keep == <<"TEMP", "HOME", "USER", "SYSTEMROOT">>

NULL == "NULL"

\* ------------------------------------------------------- the universe

Sessions == {"s1", "s2"}

\* The instances a caller may pass.  a, b and c carry the session key and
\* python version of the Sessions; c has a's instance id; d has another
\* session key and e another python version.
Insts == {"a", "b", "c", "d", "e"}

InstanceId(i) == CASE i = "a" -> 1 [] i = "b" -> 2 [] i = "c" -> 1
                   [] i = "d" -> 2 [] OTHER -> 1

InstSessionKey(i) == IF i = "d" THEN "k2" ELSE "k1"

InstPythonVersion(i) == IF i = "e" THEN "v2" ELSE "v1"

\* Names and values of the controller's environment variables.
EnvNames == {"TEMP", "HOME", "USER", "SYSTEMROOT", "PATH", "PYTHONPATH", "SECRET"}
EnvValues == {"", "x"}

\* Every environment the controller process can have: some of the names
\* set, each to some value.
Environments == UNION {[D -> EnvValues] : D \in SUBSET EnvNames}

\* The environment the lifecycle specifications run in.
DefaultEnv == [n \in {"TEMP", "USER", "PATH", "SECRET"} |-> "x"]

VARIABLES
  session_key,           \* _session_key of each Session
  python_version,        \* _python_version
  python_state,          \* _python_state
  started_read_thread,   \* _started_read_thread
  read_thread_continue,  \* _read_thread_continue
  commands,              \* _commands: the queue of commands not yet sent
  instances,             \* _instances: instance id -> instance
  instances_lock,        \* _instances_lock: "free", "controller" or "reader"
  pipe_write_open,       \* _pipe_write is open
  pipe_read_open,        \* _pipe_read is open
  wire,                  \* the documents inserted into _pipe_write, in order
  p3dpython,             \* the worker of _p3dpython: "none", "alive", "exited", "killed"
  exit_code,             \* the worker's exit code once it is not alive
  handle_closed,         \* CloseHandle(_p3dpython.hProcess) was called
  worker_env,            \* the environment block given to CreateProcess
  downloads,             \* downloads started by download_p3dpython, not yet finished
  inst_session,          \* inst->_session of each instance
  requests,              \* P3D_RT_stop requests each Session added to each instance
  ctl,                   \* the controller thread: the call it is in and where
  rt_pc,                 \* the read thread: where it is
  icopy,                 \* rt_terminate's copy of _instances
  ii,                    \* rt_terminate's iterator: entries of icopy passed
  aborted,               \* a failed assertion, "" when none
  destroyed,             \* the destructor of the Session has returned
  ctl_env,               \* the controller process's environment
  \* history, read by no action
  submitted,             \* every command given to send_command, with the state then
  freed,                 \* every command deleted, in order
  drained,               \* the commands start_p3dpython wrote from the queue
  dl_started,            \* downloads started so far
  created,               \* successful CreateProcess calls so far
  joined,                \* waits on the read thread's handle so far
  rt_terminated,         \* rt_terminate was called
  rt_on_closed,          \* the read failed after a destructor closed _pipe_read
  rt_read_open,          \* the thread is in a read that began with _pipe_read open
  stayed                 \* the instances registered ever since rt_terminate's copy

vars == <<session_key, python_version, python_state, started_read_thread,
          read_thread_continue, commands, instances, instances_lock,
          pipe_write_open, pipe_read_open, wire, p3dpython, exit_code,
          handle_closed, worker_env, downloads, inst_session, requests, ctl,
          rt_pc, icopy, ii, aborted, destroyed, ctl_env, submitted, freed,
          drained, dl_started, created, joined, rt_terminated, rt_on_closed, rt_read_open,
          stayed>>

\* ------------------------------------------------------------ helpers

EmptyMap == [k \in {} |-> "a"]

\* An insertion that replaces the entry of a key that is there (operator[]).
MapInsertOverwrite(m, k, v) ==
  [x \in DOMAIN m \cup {k} |-> IF x = k THEN v ELSE m[x]]

\* std::map::insert: adds the entry unless the key is there already.
MapInsert(m, k, v) ==
  IF k \in DOMAIN m THEN m
  ELSE [x \in DOMAIN m \cup {k} |-> IF x = k THEN v ELSE m[x]]

\* std::map::erase(key).
MapErase(m, k) == [x \in DOMAIN m \ {k} |-> m[x]]

\* The keys of a std::map in iteration order (ascending).
RECURSIVE SortedKeys(_)
SortedKeys(K) ==
  IF K = {} THEN <<>>
  ELSE LET k == CHOOSE x \in K : \A y \in K : x <= y
       IN <<k>> \o SortedKeys(K \ {k})

\* The documents of a history of submissions.
Docs(h) == [k \in 1..Len(h) |-> h[k].doc]

Idle ==
  [op |-> "idle", s |-> "-", inst |-> "-", pc |-> "-", inserted |-> FALSE,
   ci |-> 0]

\* The command documents start_instance and terminate_instance build; n is
\* the allocation (new TiXmlDocument) it is.
StartInstanceDoc(s, i) ==
  [cmd |-> "start_instance", inst |-> i, id |-> InstanceId(i),
   n |-> Len(submitted[s]) + 1]

TerminateInstanceDoc(s, i) ==
  [cmd |-> "terminate_instance", inst |-> "-", id |-> InstanceId(i),
   n |-> Len(submitted[s]) + 1]

ExitDoc == [cmd |-> "exit", inst |-> "-", id |-> 0, n |-> 0]

\* ---------------------------------------------------------- constructor

\* P3DSession(inst): the fields the constructor sets; the parameters of
\* the Session are those of inst.
P3DSession(inst) ==
  [session_key |-> InstSessionKey(inst),
   python_version |-> InstPythonVersion(inst),
   python_state |-> PS_init,
   started_read_thread |-> FALSE,
   read_thread_continue |-> FALSE,
   instances_lock |-> "free"]

\* Every Session has been constructed from instance a, and the controller
\* process runs in environment env.
InitIn(env) ==
  /\ session_key = [s \in Sessions |-> P3DSession("a").session_key]
  /\ python_version = [s \in Sessions |-> P3DSession("a").python_version]
  /\ python_state = [s \in Sessions |-> P3DSession("a").python_state]
  /\ started_read_thread = [s \in Sessions |-> P3DSession("a").started_read_thread]
  /\ read_thread_continue = [s \in Sessions |-> P3DSession("a").read_thread_continue]
  /\ instances_lock = [s \in Sessions |-> P3DSession("a").instances_lock]
  /\ commands = [s \in Sessions |-> <<>>]
  /\ instances = [s \in Sessions |-> EmptyMap]
  /\ pipe_write_open = [s \in Sessions |-> FALSE]
  /\ pipe_read_open = [s \in Sessions |-> FALSE]
  /\ wire = [s \in Sessions |-> <<>>]
  /\ p3dpython = [s \in Sessions |-> "none"]
  /\ exit_code = [s \in Sessions |-> 0]
  /\ handle_closed = [s \in Sessions |-> FALSE]
  /\ worker_env = [s \in Sessions |-> <<>>]
  /\ downloads = [s \in Sessions |-> 0]
  /\ inst_session = [i \in Insts |-> NULL]
  /\ requests = [s \in Sessions |-> [i \in Insts |-> 0]]
  /\ ctl = Idle
  /\ rt_pc = [s \in Sessions |-> "none"]
  /\ icopy = [s \in Sessions |-> EmptyMap]
  /\ ii = [s \in Sessions |-> 0]
  /\ aborted = ""
  /\ destroyed = [s \in Sessions |-> FALSE]
  /\ ctl_env = env
  /\ submitted = [s \in Sessions |-> <<>>]
  /\ freed = [s \in Sessions |-> <<>>]
  /\ drained = [s \in Sessions |-> <<>>]
  /\ dl_started = [s \in Sessions |-> 0]
  /\ created = [s \in Sessions |-> 0]
  /\ joined = [s \in Sessions |-> 0]
  /\ rt_terminated = [s \in Sessions |-> FALSE]
  /\ rt_on_closed = [s \in Sessions |-> FALSE]
  /\ rt_read_open = [s \in Sessions |-> FALSE]
  /\ stayed = [s \in Sessions |-> {}]

Init == InitIn(DefaultEnv)

\* The number of commands submitted so far, to all Sessions.
RECURSIVE SubmittedTo(_)
SubmittedTo(S) ==
  IF S = {} THEN 0
  ELSE LET s == CHOOSE x \in S : TRUE
       IN Len(submitted[s]) + SubmittedTo(S \ {s})

Submitted == SubmittedTo(Sessions)

\* ---------------------------------------------------------- send_command

\* A queue that pushes at the front.
QueuePushFront(q, command) == <<command>> \o q

\* _commands.push_back(command).
QueuePush(q, command) == Append(q, command)

\* A send_command that writes without looking at the state.
SendCommandUnchecked(s, command) ==
  /\ submitted' = [submitted EXCEPT
       ![s] = Append(@, [doc |-> command, st |-> python_state[s]])]
  /\ wire' = [wire EXCEPT ![s] = Append(@, command)]
  /\ freed' = [freed EXCEPT ![s] = Append(@, command)]
  /\ UNCHANGED commands

\* A send_command that queues the command whatever the state is.
SendCommandAlwaysQueues(s, command) ==
  /\ submitted' = [submitted EXCEPT
       ![s] = Append(@, [doc |-> command, st |-> python_state[s]])]
  /\ commands' = [commands EXCEPT ![s] = QueuePush(@, command)]
  /\ UNCHANGED <<wire, freed>>

\* A send_command that, when Python is running, writes and deletes the
\* command and also leaves its pointer in the queue.
SendCommandKeepsPointer(s, command) ==
  /\ submitted' = [submitted EXCEPT
       ![s] = Append(@, [doc |-> command, st |-> python_state[s]])]
  /\ commands' = [commands EXCEPT ![s] = QueuePush(@, command)]
  /\ IF python_state[s] = PS_running
     THEN /\ wire' = [wire EXCEPT ![s] = Append(@, command)]
          /\ freed' = [freed EXCEPT ![s] = Append(@, command)]
     ELSE UNCHANGED <<wire, freed>>

\* send_command: written to the pipe and deleted when Python is running,
\* queued otherwise.
SendCommand(s, command) ==
  /\ submitted' = [submitted EXCEPT
       ![s] = Append(@, [doc |-> command, st |-> python_state[s]])]
  /\ IF python_state[s] = PS_running
     THEN /\ wire' = [wire EXCEPT ![s] = Append(@, command)]
          /\ freed' = [freed EXCEPT ![s] = Append(@, command)]
          /\ UNCHANGED commands
     ELSE /\ commands' = [commands EXCEPT ![s] = QueuePush(@, command)]
          /\ UNCHANGED <<wire, freed>>

\* download_p3dpython: starts a download unless the local file cannot be
\* opened (ok = FALSE).
DownloadP3dpython(s, ok) ==
  IF ok
  THEN /\ downloads' = [downloads EXCEPT ![s] = @ + 1]
       /\ dl_started' = [dl_started EXCEPT ![s] = @ + 1]
  ELSE UNCHANGED <<downloads, dl_started>>

\* start_instance without its first assertion.
StartInstanceAssertNoSession(s, i) ==
  IF InstSessionKey(i) # session_key[s]
  THEN "inst->get_session_key() == _session_key"
  ELSE IF InstPythonVersion(i) # python_version[s]
       THEN "inst->get_python_version() == _python_version"
  ELSE ""

\* The first assertion of start_instance that fails, "" when none does.
StartInstanceAssert(s, i) ==
  IF inst_session[i] # NULL THEN "inst->_session == NULL"
  ELSE IF InstSessionKey(i) # session_key[s]
       THEN "inst->get_session_key() == _session_key"
  ELSE IF InstPythonVersion(i) # python_version[s]
       THEN "inst->get_python_version() == _python_version"
  ELSE ""

\* --------------------------------------------------------- start_instance

\* start_instance up to the insertion: the assertions, then under the lock
\* the back-reference and the insertion in _instances.
StartInstance(s, i) ==
  /\ aborted = "" /\ ctl = Idle /\ ~destroyed[s]
  /\ Submitted < MaxCmds
  /\ IF StartInstanceAssert(s, i) # ""
     THEN /\ aborted' = StartInstanceAssert(s, i)
          /\ ctl' = [Idle EXCEPT !.op = "start_instance", !.s = s, !.inst = i,
                                 !.pc = "abort"]
          /\ UNCHANGED <<inst_session, instances, instances_lock>>
     ELSE /\ instances_lock[s] = "free"
          /\ instances_lock' = [instances_lock EXCEPT ![s] = "controller"]
          /\ inst_session' = [inst_session EXCEPT ![i] = s]
          /\ instances' = [instances EXCEPT ![s] = MapInsert(@, InstanceId(i), i)]
          /\ ctl' = [op |-> "start_instance", s |-> s, inst |-> i, pc |-> "locked",
                     inserted |-> InstanceId(i) \notin DOMAIN instances[s],
                     ci |-> 0]
          /\ UNCHANGED aborted
  /\ UNCHANGED <<session_key, python_version, python_state, started_read_thread,
                 read_thread_continue, commands, pipe_write_open, pipe_read_open,
                 wire, p3dpython, exit_code, handle_closed, worker_env, downloads,
                 requests, rt_pc, icopy, ii, destroyed, ctl_env, submitted, freed,
                 drained, dl_started, created, joined,
                 rt_terminated, rt_on_closed, rt_read_open, stayed>>

\* RELEASE_LOCK in start_instance.
StartInstanceRelease(s, i) ==
  /\ aborted = ""
  /\ ctl.op = "start_instance" /\ ctl.pc = "locked" /\ ctl.s = s /\ ctl.inst = i
  /\ instances_lock' = [instances_lock EXCEPT ![s] = "free"]
  /\ ctl' = [ctl EXCEPT !.pc = "released"]
  /\ UNCHANGED <<session_key, python_version, python_state, started_read_thread,
                 read_thread_continue, commands, instances, pipe_write_open,
                 pipe_read_open, wire, p3dpython, exit_code, handle_closed,
                 worker_env, downloads, inst_session, requests, rt_pc, icopy, ii,
                 aborted, destroyed, ctl_env, submitted, freed, drained,
                 dl_started, created, joined, rt_terminated, rt_on_closed, rt_read_open,
                 stayed>>

\* The rest of start_instance, after the lock is released: the insertion
\* is asserted, the command is sent or queued, and the download is started
\* when Python has not been started.
StartInstanceFinish(s, i) ==
  /\ aborted = ""
  /\ ctl.op = "start_instance" /\ ctl.pc = "released" /\ ctl.s = s /\ ctl.inst = i
  /\ IF ~ctl.inserted
     THEN /\ aborted' = "inserted"
          /\ ctl' = [ctl EXCEPT !.pc = "abort"]
          /\ UNCHANGED <<submitted, wire, freed, commands, downloads, dl_started>>
     ELSE /\ SendCommand(s, StartInstanceDoc(s, i))
          /\ IF python_state[s] = PS_init
             THEN \E ok \in BOOLEAN : DownloadP3dpython(s, ok)
             ELSE UNCHANGED <<downloads, dl_started>>
          /\ ctl' = Idle
          /\ UNCHANGED aborted
  /\ UNCHANGED <<session_key, python_version, python_state, started_read_thread,
                 read_thread_continue, instances, instances_lock,
                 pipe_write_open, pipe_read_open,
                 p3dpython, exit_code, handle_closed, worker_env, inst_session,
                 requests, rt_pc, icopy, ii, destroyed, ctl_env, drained, created,
                 joined,
                 rt_terminated, rt_on_closed, rt_read_open, stayed>>

\* ----------------------------------------------------- terminate_instance

\* terminate_instance up to send_command: the command is built and sent
\* or queued.
TerminateInstance(s, i) ==
  /\ aborted = "" /\ ctl = Idle /\ ~destroyed[s]
  /\ Submitted < MaxCmds
  /\ SendCommand(s, TerminateInstanceDoc(s, i))
  /\ ctl' = [Idle EXCEPT !.op = "terminate_instance", !.s = s, !.inst = i,
                         !.pc = "sent"]
  /\ UNCHANGED <<session_key, python_version, python_state, started_read_thread,
                 read_thread_continue, instances, instances_lock,
                 pipe_write_open, pipe_read_open, p3dpython, exit_code,
                 handle_closed, worker_env, downloads, inst_session, requests,
                 rt_pc, icopy, ii, aborted, destroyed, ctl_env, drained,
                 dl_started, created, joined, rt_terminated, rt_on_closed, rt_read_open, stayed>>

\* A terminate_instance that detaches the instance without looking at its
\* back-reference.
TerminateInstanceLockUnguarded(s, i) ==
  /\ aborted = ""
  /\ ctl.op = "terminate_instance" /\ ctl.pc = "sent" /\ ctl.s = s /\ ctl.inst = i
  /\ instances_lock[s] = "free"
  /\ instances_lock' = [instances_lock EXCEPT ![s] = "controller"]
  /\ inst_session' = [inst_session EXCEPT ![i] = NULL]
  /\ instances' = [instances EXCEPT ![s] = MapErase(@, InstanceId(i))]
  /\ stayed' = [stayed EXCEPT ![s] = @ \ {i}]
  /\ ctl' = [ctl EXCEPT !.pc = "locked"]
  /\ UNCHANGED <<session_key, python_version, python_state, started_read_thread,
                 read_thread_continue, commands, pipe_write_open, pipe_read_open,
                 wire, p3dpython, exit_code, handle_closed, worker_env,
                 downloads, requests, rt_pc, icopy, ii, aborted, destroyed,
                 ctl_env, submitted, freed, drained, dl_started, created,
                 joined, rt_terminated,
                 rt_on_closed, rt_read_open>>

\* terminate_instance under the lock: the instance is detached if it is
\* attached to this Session.
TerminateInstanceLock(s, i) ==
  /\ aborted = ""
  /\ ctl.op = "terminate_instance" /\ ctl.pc = "sent" /\ ctl.s = s /\ ctl.inst = i
  /\ instances_lock[s] = "free"
  /\ instances_lock' = [instances_lock EXCEPT ![s] = "controller"]
  /\ IF inst_session[i] = s
     THEN /\ inst_session' = [inst_session EXCEPT ![i] = NULL]
          /\ instances' = [instances EXCEPT ![s] = MapErase(@, InstanceId(i))]
          /\ stayed' = [stayed EXCEPT ![s] = @ \ {i}]
     ELSE UNCHANGED <<inst_session, instances, stayed>>
  /\ ctl' = [ctl EXCEPT !.pc = "locked"]
  /\ UNCHANGED <<session_key, python_version, python_state, started_read_thread,
                 read_thread_continue, commands, pipe_write_open, pipe_read_open,
                 wire, p3dpython, exit_code, handle_closed, worker_env,
                 downloads, requests, rt_pc, icopy, ii, aborted, destroyed,
                 ctl_env, submitted, freed, drained, dl_started, created,
                 joined, rt_terminated,
                 rt_on_closed, rt_read_open>>

\* RELEASE_LOCK at the end of terminate_instance.
TerminateInstanceFinish(s, i) ==
  /\ aborted = ""
  /\ ctl.op = "terminate_instance" /\ ctl.pc = "locked" /\ ctl.s = s /\ ctl.inst = i
  /\ instances_lock' = [instances_lock EXCEPT ![s] = "free"]
  /\ ctl' = Idle
  /\ UNCHANGED <<session_key, python_version, python_state, started_read_thread,
                 read_thread_continue, commands, instances, pipe_write_open,
                 pipe_read_open, wire, p3dpython, exit_code, handle_closed,
                 worker_env, downloads, inst_session, requests, rt_pc, icopy, ii,
                 aborted, destroyed, ctl_env, submitted, freed, drained,
                 dl_started, created, joined,
                 rt_terminated, rt_on_closed, rt_read_open, stayed>>

\* -------------------------------------------------------- start_p3dpython

\* getenv(name) != NULL.
GetenvSet(env, name) == name \in DOMAIN env

\* The loop over keep[]: one NAME=value entry for each variable that is set.
RECURSIVE KeepEntries(_, _)
KeepEntries(env, ki) ==
  IF ki > Len(Keep) THEN <<>>
  ELSE (IF GetenvSet(env, Keep[ki])
        THEN <<[name |-> Keep[ki], value |-> env[Keep[ki]]]>>
        ELSE <<>>) \o KeepEntries(env, ki + 1)

\* An environment block that keeps the controller's PATH when it has one.
EnvBlockKeepsPath(env) ==
  KeepEntries(env, 1)
    \o <<[name |-> "PATH",
          value |-> IF GetenvSet(env, "PATH") THEN env["PATH"] ELSE PythonRootDir],
         [name |-> "PYTHONPATH", value |-> PythonRootDir]>>

\* The environment block of the new process: the forwarded variables, then
\* PATH and PYTHONPATH.
EnvBlock(env) ==
  KeepEntries(env, 1)
    \o <<[name |-> "PATH", value |-> PythonRootDir],
         [name |-> "PYTHONPATH", value |-> PythonRootDir]>>

\* A start_p3dpython that sets the state before it looks at the result of
\* CreateProcess.
FailedToCreateSetsState(s) ==
  /\ python_state' = [python_state EXCEPT ![s] = PS_running]
  /\ UNCHANGED <<p3dpython, exit_code, created, aborted, read_thread_continue,
                 rt_pc, ctl>>

\* if (!started_p3dpython) return: nothing more is done.
FailedToCreate(s) ==
  UNCHANGED <<python_state, p3dpython, exit_code, created, aborted,
              read_thread_continue, rt_pc, ctl>>

\* The controller thread is in start_p3dpython on Session s, at pc.
InStartP3dpython(s, pc) == ctl.op = "start_p3dpython" /\ ctl.s = s /\ ctl.pc = pc

\* start_p3dpython up to CreateThread, called when a download has
\* finished.  Each CreatePipe succeeds, and its stream is opened, or fails
\* and leaves handles that were never set: the stream opened on such a
\* handle may be open or not.  CreateProcess succeeds or fails
\* (started_p3dpython); when it fails the call returns.  On success the
\* state is PS_running and spawn_read_thread asserts that no thread was
\* spawned, sets the flag and calls CreateThread, which starts the thread
\* or returns NULL.
StartP3dpython(s) ==
  /\ aborted = "" /\ ctl = Idle /\ ~destroyed[s]
  /\ downloads[s] > 0
  /\ downloads' = [downloads EXCEPT ![s] = @ - 1]
  /\ worker_env' = [worker_env EXCEPT ![s] = EnvBlock(ctl_env)]
  /\ \E read_open, write_open \in BOOLEAN :
       /\ pipe_read_open' = [pipe_read_open EXCEPT ![s] = read_open]
       /\ pipe_write_open' = [pipe_write_open EXCEPT ![s] = write_open]
  /\ \E started_p3dpython \in BOOLEAN :
       IF ~started_p3dpython
       THEN FailedToCreate(s)
       ELSE /\ created' = [created EXCEPT ![s] = @ + 1]
            /\ p3dpython' = [p3dpython EXCEPT ![s] = "alive"]
            /\ exit_code' = [exit_code EXCEPT ![s] = 0]
            /\ python_state' = [python_state EXCEPT ![s] = PS_running]
            /\ IF read_thread_continue[s]
               THEN /\ aborted' = "!_read_thread_continue"
                    /\ ctl' = [Idle EXCEPT !.op = "start_p3dpython", !.s = s,
                                           !.pc = "abort"]
                    /\ UNCHANGED <<read_thread_continue, rt_pc>>
               ELSE /\ read_thread_continue' =
                         [read_thread_continue EXCEPT ![s] = TRUE]
                    /\ \E thread_created \in BOOLEAN :
                         rt_pc' = [rt_pc EXCEPT
                                     ![s] = IF thread_created THEN "loop" ELSE @]
                    /\ ctl' = [Idle EXCEPT !.op = "start_p3dpython", !.s = s,
                                           !.pc = "spawned"]
                    /\ UNCHANGED aborted
  /\ UNCHANGED <<session_key, python_version, started_read_thread, commands,
                 instances, instances_lock, wire, handle_closed, inst_session,
                 requests, icopy, ii, destroyed, ctl_env, submitted, freed,
                 drained, dl_started, joined, rt_terminated, rt_on_closed, rt_read_open,
                 stayed>>

\* The members a step of start_p3dpython after CreateThread leaves alone.
sp_unchanged ==
  UNCHANGED <<session_key, python_version, python_state, read_thread_continue,
              instances, instances_lock, pipe_write_open, pipe_read_open,
              p3dpython, exit_code, handle_closed, worker_env, downloads,
              inst_session, requests, rt_pc, icopy, ii, aborted, destroyed,
              ctl_env, submitted, dl_started, created, joined, rt_terminated,
              rt_on_closed, rt_read_open, stayed>>

\* spawn_read_thread after CreateThread: _started_read_thread = true.  The
\* loop over _commands starts.
StartP3dpythonStarted(s) ==
  /\ aborted = "" /\ InStartP3dpython(s, "spawned")
  /\ started_read_thread' = [started_read_thread EXCEPT ![s] = TRUE]
  /\ ctl' = [ctl EXCEPT !.pc = "drain", !.ci = 0]
  /\ UNCHANGED <<commands, wire, freed, drained>>
  /\ sp_unchanged

\* The order in which start_p3dpython writes the queued commands.
DrainOrder(q) == q

\* _pipe_write << *(*ci): the command the iterator is at is written.
DrainWrite(s) ==
  /\ aborted = "" /\ InStartP3dpython(s, "drain")
  /\ ctl.ci < Len(commands[s])
  /\ wire' = [wire EXCEPT ![s] = Append(@, DrainOrder(commands[s])[ctl.ci + 1])]
  /\ drained' = [drained EXCEPT
       ![s] = Append(@, DrainOrder(commands[s])[ctl.ci + 1])]
  /\ ctl' = [ctl EXCEPT !.pc = "delete"]
  /\ UNCHANGED <<started_read_thread, commands, freed>>
  /\ sp_unchanged

\* delete (*ci) and ++ci: the command is deleted; its pointer stays in
\* _commands.
DrainDelete(s) ==
  /\ aborted = "" /\ InStartP3dpython(s, "delete")
  /\ freed' = [freed EXCEPT ![s] = Append(@, DrainOrder(commands[s])[ctl.ci + 1])]
  /\ ctl' = [ctl EXCEPT !.pc = "drain", !.ci = @ + 1]
  /\ UNCHANGED <<started_read_thread, commands, wire, drained>>
  /\ sp_unchanged

\* The loop has ended: the pipe is flushed and _commands.clear().
DrainClear(s) ==
  /\ aborted = "" /\ InStartP3dpython(s, "drain")
  /\ ctl.ci = Len(commands[s])
  /\ commands' = [commands EXCEPT ![s] = <<>>]
  /\ ctl' = Idle
  /\ UNCHANGED <<started_read_thread, wire, freed, drained>>
  /\ sp_unchanged

\* ------------------------------------------------------------ the worker

\* The exit codes of a worker that ends by itself: any status, the one of
\* TerminateProcess included.
WorkerExitCodes == {0, 1, 2, 3, 255}

\* The worker process ends by itself, with any exit code: it obeyed an exit
\* command, saw its input close, or crashed.  It is another process: it
\* can end after the controller has aborted.
WorkerExits(s) ==
  /\ p3dpython[s] = "alive"
  /\ p3dpython' = [p3dpython EXCEPT ![s] = "exited"]
  /\ \E code \in WorkerExitCodes : exit_code' = [exit_code EXCEPT ![s] = code]
  /\ UNCHANGED <<session_key, python_version, python_state, started_read_thread,
                 read_thread_continue, commands, instances, instances_lock,
                 pipe_write_open, pipe_read_open, wire, handle_closed,
                 worker_env, downloads, inst_session, requests, ctl, rt_pc,
                 icopy, ii, aborted, destroyed, ctl_env, submitted, freed,
                 drained, dl_started, created, joined,
                 rt_terminated, rt_on_closed, rt_read_open, stayed>>

\* -------------------------------------------------------- the read thread

rt_unchanged ==
  UNCHANGED <<session_key, python_version, python_state, started_read_thread,
              read_thread_continue, commands, instances, pipe_write_open,
              pipe_read_open, wire, p3dpython, exit_code, handle_closed,
              worker_env, downloads, inst_session, ctl, aborted, destroyed,
              ctl_env, submitted, freed, drained, dl_started, created, joined>>

\* while (_read_thread_continue): the flag is written by the controller
\* with no synchronisation, so once it is cleared the thread may see either
\* value.  When the flag is seen set the thread enters _pipe_read >> *doc,
\* on the stream as it is then.
RtLoop(s) ==
  /\ aborted = "" /\ rt_pc[s] = "loop"
  /\ \E seen \in (IF read_thread_continue[s] THEN {TRUE} ELSE {TRUE, FALSE}) :
       /\ rt_pc' = [rt_pc EXCEPT ![s] = IF seen THEN "read" ELSE "done"]
       /\ rt_read_open' = [rt_read_open EXCEPT ![s] = seen /\ pipe_read_open[s]]
  /\ UNCHANGED <<instances_lock, requests, icopy, ii>>
  /\ UNCHANGED <<rt_terminated, rt_on_closed, stayed>>
  /\ rt_unchanged

\* _pipe_read >> *doc reads a document: one the worker writes, or one it
\* wrote before it ended.  The stream is open, or it was open when the read
\* began: the controller closes it with no synchronisation (lines 64 and
\* 384), and a read in progress may still return a document.  The document
\* is deleted.
RtReadDoc(s) ==
  /\ aborted = "" /\ rt_pc[s] = "read"
  /\ pipe_read_open[s] \/ rt_read_open[s]
  /\ rt_pc' = [rt_pc EXCEPT ![s] = "loop"]
  /\ rt_read_open' = [rt_read_open EXCEPT ![s] = FALSE]
  /\ UNCHANGED <<instances_lock, requests, icopy, ii>>
  /\ UNCHANGED <<rt_terminated, rt_on_closed, stayed>>
  /\ rt_unchanged

\* _pipe_read >> *doc fails or ends: the pipe was closed by the controller,
\* the worker is gone, or what it sent does not decode (possible at any
\* time).  rt_terminate is called.
RtReadFail(s) ==
  /\ aborted = "" /\ rt_pc[s] = "read"
  /\ rt_pc' = [rt_pc EXCEPT ![s] = "rt_terminate"]
  /\ UNCHANGED <<instances_lock, requests, icopy, ii>>
  /\ rt_terminated' = [rt_terminated EXCEPT ![s] = TRUE]
  /\ rt_on_closed' = [rt_on_closed EXCEPT
       ![s] = ctl.op = "destructor" /\ ctl.s = s /\ ~pipe_read_open[s]]
  /\ rt_read_open' = [rt_read_open EXCEPT ![s] = FALSE]
  /\ UNCHANGED stayed
  /\ rt_unchanged

\* icopy = _instances.
Snapshot(m) == m

\* An rt_terminate that copies _instances without waiting for the lock.
RtSnapshotNoLock(s) ==
  /\ aborted = "" /\ rt_pc[s] = "rt_terminate"
  /\ instances_lock' = [instances_lock EXCEPT ![s] = "reader"]
  /\ icopy' = [icopy EXCEPT ![s] = Snapshot(instances[s])]
  /\ stayed' = [stayed EXCEPT ![s] = {instances[s][k] : k \in DOMAIN instances[s]}]
  /\ UNCHANGED <<rt_terminated, rt_on_closed, rt_read_open>>
  /\ ii' = [ii EXCEPT ![s] = 0]
  /\ rt_pc' = [rt_pc EXCEPT ![s] = "locked"]
  /\ UNCHANGED requests
  /\ rt_unchanged

\* rt_terminate: ACQUIRE_LOCK and icopy = _instances.
RtSnapshot(s) ==
  /\ aborted = "" /\ rt_pc[s] = "rt_terminate"
  /\ instances_lock[s] = "free"
  /\ instances_lock' = [instances_lock EXCEPT ![s] = "reader"]
  /\ icopy' = [icopy EXCEPT ![s] = Snapshot(instances[s])]
  /\ stayed' = [stayed EXCEPT ![s] = {instances[s][k] : k \in DOMAIN instances[s]}]
  /\ UNCHANGED <<rt_terminated, rt_on_closed, rt_read_open>>
  /\ ii' = [ii EXCEPT ![s] = 0]
  /\ rt_pc' = [rt_pc EXCEPT ![s] = "locked"]
  /\ UNCHANGED requests
  /\ rt_unchanged

\* rt_terminate: RELEASE_LOCK.
RtRelease(s) ==
  /\ aborted = "" /\ rt_pc[s] = "locked"
  /\ instances_lock' = [instances_lock EXCEPT ![s] = "free"]
  /\ rt_pc' = [rt_pc EXCEPT ![s] = "sweep"]
  /\ UNCHANGED <<requests, icopy, ii>>
  /\ UNCHANGED <<rt_terminated, rt_on_closed, rt_read_open, stayed>>
  /\ rt_unchanged

\* An iterator that is read at the start of icopy on every turn.
SweepInstFirst(s) == icopy[s][SortedKeys(DOMAIN icopy[s])[1]]

\* The instance the iterator of rt_terminate is at.
SweepInst(s) == icopy[s][SortedKeys(DOMAIN icopy[s])[ii[s] + 1]]

\* One turn of the loop of rt_terminate: a P3D_RT_stop request is added to
\* the instance.
RtNotify(s) ==
  /\ aborted = "" /\ rt_pc[s] = "sweep"
  /\ ii[s] < Cardinality(DOMAIN icopy[s])
  /\ requests' = [requests EXCEPT ![s][SweepInst(s)] = @ + 1]
  /\ ii' = [ii EXCEPT ![s] = @ + 1]
  /\ UNCHANGED <<instances_lock, icopy, rt_pc>>
  /\ UNCHANGED <<rt_terminated, rt_on_closed, rt_read_open, stayed>>
  /\ rt_unchanged

\* The loop of rt_terminate ends and the thread returns.
RtReturn(s) ==
  /\ aborted = "" /\ rt_pc[s] = "sweep"
  /\ ii[s] = Cardinality(DOMAIN icopy[s])
  /\ rt_pc' = [rt_pc EXCEPT ![s] = "done"]
  /\ UNCHANGED <<instances_lock, requests, icopy, ii>>
  /\ UNCHANGED <<rt_terminated, rt_on_closed, rt_read_open, stayed>>
  /\ rt_unchanged

\* ------------------------------------------------------------ destructor

dt_unchanged ==
  UNCHANGED <<session_key, python_version, python_state, instances,
              instances_lock, worker_env, downloads, inst_session, requests,
              rt_pc, icopy, ii, aborted, ctl_env, submitted, drained,
              dl_started, created,
                 rt_terminated, rt_on_closed, rt_read_open, stayed>>

InDestructor(s, pc) == ctl.op = "destructor" /\ ctl.s = s /\ ctl.pc = pc

\* A destructor that closes the pipes of a running Session without writing
\* the exit command.
DestructorSkipsExit(s) ==
  /\ aborted = "" /\ ctl = Idle /\ ~destroyed[s]
  /\ IF python_state[s] = PS_running
     THEN /\ pipe_write_open' = [pipe_write_open EXCEPT ![s] = FALSE]
          /\ pipe_read_open' = [pipe_read_open EXCEPT ![s] = FALSE]
          /\ ctl' = [Idle EXCEPT !.op = "destructor", !.s = s, !.pc = "wait"]
          /\ UNCHANGED wire
     ELSE /\ ctl' = [Idle EXCEPT !.op = "destructor", !.s = s, !.pc = "free"]
          /\ UNCHANGED <<wire, pipe_write_open, pipe_read_open>>
  /\ UNCHANGED <<started_read_thread, read_thread_continue, commands,
                 p3dpython, exit_code, handle_closed, destroyed, freed, joined,
                 rt_terminated, rt_on_closed, rt_read_open, stayed>>
  /\ dt_unchanged

\* ~P3DSession, first part: when Python is running the exit command is
\* written and both pipes are closed.
Destructor(s) ==
  /\ aborted = "" /\ ctl = Idle /\ ~destroyed[s]
  /\ IF python_state[s] = PS_running
     THEN /\ wire' = [wire EXCEPT ![s] = Append(@, ExitDoc)]
          /\ pipe_write_open' = [pipe_write_open EXCEPT ![s] = FALSE]
          /\ pipe_read_open' = [pipe_read_open EXCEPT ![s] = FALSE]
          /\ ctl' = [Idle EXCEPT !.op = "destructor", !.s = s, !.pc = "wait"]
     ELSE /\ ctl' = [Idle EXCEPT !.op = "destructor", !.s = s, !.pc = "free"]
          /\ UNCHANGED <<wire, pipe_write_open, pipe_read_open>>
  /\ UNCHANGED <<started_read_thread, read_thread_continue, commands,
                 p3dpython, exit_code, handle_closed, destroyed, freed, joined,
                 rt_terminated, rt_on_closed, rt_read_open, stayed>>
  /\ dt_unchanged

\* A wait that closes the handles without terminating the worker.
DestructorWaitNoTerminate(s) ==
  /\ aborted = "" /\ InDestructor(s, "wait")
  /\ handle_closed' = [handle_closed EXCEPT ![s] = TRUE]
  /\ ctl' = [ctl EXCEPT !.pc = "free"]
  /\ UNCHANGED <<p3dpython, exit_code, started_read_thread,
                 read_thread_continue, commands, wire, pipe_write_open,
                 pipe_read_open, destroyed, freed, joined, rt_terminated,
                 rt_on_closed, rt_read_open, stayed>>
  /\ dt_unchanged

\* WaitForSingleObject(hProcess, 2000): it returns at once when the worker
\* has ended, and otherwise times out; then TerminateProcess(hProcess, 2).
\* The handles are closed.
DestructorWait(s) ==
  /\ aborted = "" /\ InDestructor(s, "wait")
  /\ IF p3dpython[s] = "alive"
     THEN /\ p3dpython' = [p3dpython EXCEPT ![s] = "killed"]
          /\ exit_code' = [exit_code EXCEPT ![s] = TerminateExitCode]
     ELSE UNCHANGED <<p3dpython, exit_code>>
  /\ handle_closed' = [handle_closed EXCEPT ![s] = TRUE]
  /\ ctl' = [ctl EXCEPT !.pc = "free"]
  /\ UNCHANGED <<started_read_thread, read_thread_continue, commands, wire,
                 pipe_write_open, pipe_read_open, destroyed, freed, joined,
                 rt_terminated, rt_on_closed, rt_read_open, stayed>>
  /\ dt_unchanged

\* A loop that starts after the first command.
DeleteLoopSkipsFirst(q) == IF q = <<>> THEN <<>> ELSE Tail(q)

\* The commands the loop over _commands deletes.
DeleteLoop(q) == q

\* A join_read_thread that waits without clearing the flag or closing the
\* read pipe.
DestructorFreeNoClose(s) ==
  /\ aborted = "" /\ InDestructor(s, "free")
  /\ freed' = [freed EXCEPT ![s] = @ \o DeleteLoop(commands[s])]
  /\ commands' = [commands EXCEPT ![s] = <<>>]
  /\ IF ~started_read_thread[s]
     THEN /\ destroyed' = [destroyed EXCEPT ![s] = TRUE]
          /\ ctl' = Idle
     ELSE /\ ctl' = [ctl EXCEPT !.pc = "join"]
          /\ UNCHANGED destroyed
  /\ UNCHANGED <<read_thread_continue, pipe_read_open>>
  /\ UNCHANGED <<started_read_thread, wire, pipe_write_open, p3dpython,
                 exit_code, handle_closed, joined,
                 rt_terminated, rt_on_closed, rt_read_open, stayed>>
  /\ dt_unchanged

\* The leftover commands are deleted and the queue cleared; then
\* join_read_thread: it returns at once when _started_read_thread is not
\* set (and the lock is destroyed), and otherwise clears the flag and
\* closes the read pipe.
DestructorFree(s) ==
  /\ aborted = "" /\ InDestructor(s, "free")
  /\ freed' = [freed EXCEPT ![s] = @ \o DeleteLoop(commands[s])]
  /\ commands' = [commands EXCEPT ![s] = <<>>]
  /\ IF ~started_read_thread[s]
     THEN /\ destroyed' = [destroyed EXCEPT ![s] = TRUE]
          /\ ctl' = Idle
          /\ UNCHANGED <<read_thread_continue, pipe_read_open>>
     ELSE /\ read_thread_continue' = [read_thread_continue EXCEPT ![s] = FALSE]
          /\ pipe_read_open' = [pipe_read_open EXCEPT ![s] = FALSE]
          /\ ctl' = [ctl EXCEPT !.pc = "join"]
          /\ UNCHANGED destroyed
  /\ UNCHANGED <<started_read_thread, wire, pipe_write_open, p3dpython,
                 exit_code, handle_closed, joined,
                 rt_terminated, rt_on_closed, rt_read_open, stayed>>
  /\ dt_unchanged

\* assert(_read_thread != NULL) in join_read_thread fails: CreateThread
\* had returned NULL.
DestructorJoinAssert(s) ==
  /\ aborted = "" /\ InDestructor(s, "join")
  /\ rt_pc[s] = "none"
  /\ aborted' = "_read_thread != NULL"
  /\ ctl' = [ctl EXCEPT !.pc = "abort"]
  /\ UNCHANGED <<session_key, python_version, python_state, started_read_thread,
                 read_thread_continue, commands, instances, instances_lock,
                 pipe_write_open, pipe_read_open, wire, p3dpython, exit_code,
                 handle_closed, worker_env, downloads, inst_session, requests,
                 rt_pc, icopy, ii, destroyed, ctl_env, submitted, freed, drained,
                 dl_started, created, joined, rt_terminated, rt_on_closed, rt_read_open,
                 stayed>>

\* A join_read_thread that does not wait for the thread to return.
DestructorJoinNoWait(s) ==
  /\ aborted = "" /\ InDestructor(s, "join")
  /\ joined' = [joined EXCEPT ![s] = @ + 1]
  /\ started_read_thread' = [started_read_thread EXCEPT ![s] = FALSE]
  /\ destroyed' = [destroyed EXCEPT ![s] = TRUE]
  /\ ctl' = Idle
  /\ UNCHANGED <<read_thread_continue, commands, wire, pipe_write_open,
                 pipe_read_open, p3dpython, exit_code, handle_closed, freed>>
  /\ dt_unchanged

\* WaitForSingleObject(_read_thread, INFINITE) returns once the thread has
\* returned; the handle is closed and the lock destroyed.
DestructorJoin(s) ==
  /\ aborted = "" /\ InDestructor(s, "join")
  /\ rt_pc[s] = "done"
  /\ joined' = [joined EXCEPT ![s] = @ + 1]
  /\ started_read_thread' = [started_read_thread EXCEPT ![s] = FALSE]
  /\ destroyed' = [destroyed EXCEPT ![s] = TRUE]
  /\ ctl' = Idle
  /\ UNCHANGED <<read_thread_continue, commands, wire, pipe_write_open,
                 pipe_read_open, p3dpython, exit_code, handle_closed, freed>>
  /\ dt_unchanged

\* --------------------------------------------------------- specifications

\* The calls of start_instance and terminate_instance on the Sessions of S
\* with the instances of I, step by step.
NextCalls(S, I) ==
  \E s \in S, i \in I :
    \/ StartInstance(s, i)
    \/ StartInstanceRelease(s, i)
    \/ StartInstanceFinish(s, i)
    \/ TerminateInstance(s, i)
    \/ TerminateInstanceLock(s, i)
    \/ TerminateInstanceFinish(s, i)

\* The steps of start_p3dpython on the Sessions of S.
NextStart(S) ==
  \E s \in S :
    \/ StartP3dpython(s)
    \/ StartP3dpythonStarted(s)
    \/ DrainWrite(s)
    \/ DrainDelete(s)
    \/ DrainClear(s)

NextSession(S) ==
  \E s \in S :
    \/ WorkerExits(s)
    \/ RtLoop(s)
    \/ RtReadDoc(s)
    \/ RtReadFail(s)
    \/ RtSnapshot(s)
    \/ RtRelease(s)
    \/ RtNotify(s)
    \/ RtReturn(s)
    \/ Destructor(s)
    \/ DestructorWait(s)
    \/ DestructorFree(s)
    \/ DestructorJoinAssert(s)
    \/ DestructorJoin(s)

\* A step of the read thread of Session s (rt_thread_run and rt_terminate).
ReaderStep(s) ==
  \/ RtLoop(s)
  \/ RtReadDoc(s)
  \/ RtReadFail(s)
  \/ RtSnapshot(s)
  \/ RtRelease(s)
  \/ RtNotify(s)
  \/ RtReturn(s)

\* A step of the destructor of Session s after its first part.
TeardownStep(s) ==
  \/ DestructorWait(s)
  \/ DestructorFree(s)
  \/ DestructorJoinAssert(s)
  \/ DestructorJoin(s)

\* One Session with its controller thread, read thread and worker; the
\* callers pass two instances that fit the Session.
Next ==
  \/ NextCalls({"s1"}, {"a", "b"})
  \/ NextStart({"s1"})
  \/ NextSession({"s1"})

Spec == Init /\ [][Next]_vars

\* One Session as in Spec with one instance.
NextFair ==
  \/ NextCalls({"s1"}, {"a"})
  \/ NextStart({"s1"})
  \/ NextSession({"s1"})

\* One Session where the operating system keeps running the read thread
\* while it can take a step, and the controller thread goes on with a
\* destructor it has entered.
SpecFair ==
  /\ Init /\ [][NextFair]_vars
  /\ WF_vars(ReaderStep("s1"))
  /\ WF_vars(TeardownStep("s1"))

\* The calls on two Sessions that share the instances, every instance a
\* caller may pass included, with the download completions of the first
\* Session; the read threads and workers do not run.
NextRegistry ==
  \/ NextCalls(Sessions, Insts)
  \/ NextStart({"s1"})

SpecRegistry == Init /\ [][NextRegistry]_vars

\* The start of Python in every environment of the controller.
InitEnv == \E env \in Environments : InitIn(env)

NextEnv ==
  \/ StartInstance("s1", "a")
  \/ StartInstanceRelease("s1", "a")
  \/ StartInstanceFinish("s1", "a")
  \/ StartP3dpython("s1")

SpecEnv == InitEnv /\ [][NextEnv]_vars

\* ----------------------------------------------------------------- claims

SubmittedInInit(r) == r.st = PS_init

\* The commands submitted to Session s while its state was PS_init.
InitSubmissions(s) == Docs(SelectSeq(submitted[s], SubmittedInInit))

\* The controller thread is in start_p3dpython on Session s, between
\* CreateThread and the end of the call.
Draining(s) ==
  \/ InStartP3dpython(s, "spawned")
  \/ InStartP3dpython(s, "drain")
  \/ InStartP3dpython(s, "delete")

\* C1 (queue ordering): while a Session is PS_running the documents the
\* loop of start_p3dpython has written are the first documents on the
\* pipe, and they are the first of the commands submitted while the state
\* was PS_init, in the order of submission, each once (every command is a
\* distinct allocation); once start_p3dpython has returned they are all of
\* those commands.
C1_QueueOrdering ==
  \A s \in Sessions :
    python_state[s] = PS_running =>
      /\ Len(drained[s]) <= Len(InitSubmissions(s))
      /\ drained[s] = SubSeq(InitSubmissions(s), 1, Len(drained[s]))
      /\ ~Draining(s) => drained[s] = InitSubmissions(s)
      /\ Len(wire[s]) >= Len(drained[s])
      /\ SubSeq(wire[s], 1, Len(drained[s])) = drained[s]

\* Three commands were queued and the drain has written them.
C1_Witness ==
  /\ python_state["s1"] = PS_running /\ ctl = Idle
  /\ Len(drained["s1"]) = 3
  /\ commands["s1"] = <<>>

\* C2 (no send before running): while a Session is not PS_running (and
\* has not been destroyed), nothing has been written to its pipe, nothing
\* has been deleted, and its queue holds every command submitted so far,
\* in order.
C2_NoSendBeforeRunning ==
  \A s \in Sessions :
    (python_state[s] # PS_running /\ ~destroyed[s]) =>
      /\ wire[s] = <<>>
      /\ freed[s] = <<>>
      /\ commands[s] = Docs(submitted[s])

\* Two commands are queued after a start of Python that failed (which
\* left the pipes open).
C2_Witness ==
  /\ python_state["s1"] = PS_init
  /\ ~destroyed["s1"]
  /\ pipe_write_open["s1"]
  /\ Len(submitted["s1"]) >= 2

\* Instance i is an entry of the registry of Session s.
Registered(i, s) == \E k \in DOMAIN instances[s] : instances[s][k] = i

\* C3 (registry exclusivity): no instance is in the registries of two
\* Sessions at once; the step of terminate_instance(inst) on the Session
\* inst is attached to clears inst's back-reference and takes inst out of
\* that registry, and it is so when the call returns.
C3_RegistryExclusivity ==
  /\ [](\A i \in Insts : \A s, t \in Sessions :
          (Registered(i, s) /\ Registered(i, t)) => s = t)
  /\ [][\A s \in Sessions, i \in Insts :
          /\ (/\ ctl.op = "terminate_instance" /\ ctl.s = s /\ ctl.inst = i
              /\ ctl.pc = "sent" /\ ctl'.pc = "locked" /\ inst_session[i] = s)
               => (inst_session'[i] = NULL /\ ~Registered(i, s)')
          /\ (/\ ctl.op = "terminate_instance" /\ ctl.s = s /\ ctl.inst = i
              /\ ctl' = Idle)
               => (/\ inst_session'[i] = inst_session[i]
                   /\ inst_session'[i] # s
                   /\ ~Registered(i, s)')]_vars

\* Instance a was started on s1, terminated there and started on s2.
C3_Witness ==
  /\ ctl = Idle
  /\ Len(submitted["s1"]) = 2
  /\ inst_session["a"] = "s2"
  /\ Registered("a", "s2")
  /\ ~Registered("a", "s1")

\* C4 (idempotent teardown): the destructor of a Session that never was
\* PS_running waits on no thread and writes nothing to the pipe, and when
\* it has returned the queue is empty and the commands deleted are the
\* commands submitted, each once.
C4_IdempotentTeardown ==
  \A s \in Sessions :
    python_state[s] = PS_init =>
      /\ joined[s] = 0
      /\ ~InDestructor(s, "wait") /\ ~InDestructor(s, "join")
      /\ wire[s] = <<>>
      /\ destroyed[s] => (commands[s] = <<>> /\ freed[s] = Docs(submitted[s]))

\* A Session is destroyed with two commands in its queue, after a start of
\* Python that failed.
C4_Witness ==
  /\ destroyed["s1"]
  /\ python_state["s1"] = PS_init
  /\ pipe_write_open["s1"]
  /\ Len(freed["s1"]) >= 2

\* C5 (disconnect fan-out): a Session adds at most one stop request to any
\* instance, and when the loop of rt_terminate has ended every instance
\* that stayed registered since the copy was taken has exactly one.
C5_DisconnectFanOut ==
  \A s \in Sessions :
    /\ \A i \in Insts : requests[s][i] <= 1
    /\ (rt_terminated[s] /\ rt_pc[s] = "done") =>
         \A i \in stayed[s] : requests[s][i] = 1

\* rt_terminate has ended; a stayed registered and b, detached after the
\* copy was taken, got its request too.
C5_Witness ==
  /\ rt_terminated["s1"] /\ rt_pc["s1"] = "done"
  /\ stayed["s1"] = {"a"}
  /\ inst_session["b"] = NULL
  /\ requests["s1"]["a"] = 1
  /\ requests["s1"]["b"] = 1

\* C6 (grace-period escalation): when the destructor of a running Session
\* waits for the worker, the exit command is the last document written and
\* both pipes are closed, and the wait can always end; when the process
\* handle is closed the worker is not alive; a worker that was terminated
\* has exit code 2.
C6_GracePeriodEscalation ==
  \A s \in Sessions :
    /\ (InDestructor(s, "wait") \/ handle_closed[s]) =>
         /\ wire[s] # <<>>
         /\ wire[s][Len(wire[s])] = ExitDoc
         /\ ~pipe_write_open[s] /\ ~pipe_read_open[s]
    /\ InDestructor(s, "wait") => ENABLED DestructorWait(s)
    /\ handle_closed[s] => p3dpython[s] \in {"exited", "killed"}
    /\ p3dpython[s] = "killed" => (exit_code[s] = 2 /\ handle_closed[s])

\* The worker did not exit in the wait and was terminated.
C6_Witness ==
  /\ handle_closed["s1"]
  /\ p3dpython["s1"] = "killed"
  /\ exit_code["s1"] = 2

\* C7 (at most one worker per Session), as claimed: a Session starts the
\* download at most once (for its first instance) and CreateProcess
\* succeeds at most once for it.
C7_AtMostOneWorker ==
  \A s \in Sessions : dl_started[s] <= 1 /\ created[s] <= 1

\* The part of C7 about the process alone: CreateProcess succeeds at most
\* once for a Session.
C7_OneProcess == \A s \in Sessions : created[s] <= 1

\* C8 (spawn failure): a start_p3dpython whose CreateProcess fails leaves
\* the state as it was (PS_init stays PS_init), the queue, the pipe and the
\* deleted commands unchanged, and starts no read thread.
C8_SpawnFailure ==
  [][\A s \in Sessions :
       (downloads[s] = downloads'[s] + 1 /\ created'[s] = created[s]) =>
         /\ python_state'[s] = python_state[s]
         /\ commands'[s] = commands[s]
         /\ wire'[s] = wire[s]
         /\ freed'[s] = freed[s]
         /\ started_read_thread'[s] = started_read_thread[s]
         /\ rt_pc'[s] = rt_pc[s]]_vars

\* A start of Python failed (the pipes are open, no process was created)
\* and left two commands in the queue of a Session in PS_init.
C8_Witness ==
  /\ python_state["s1"] = PS_init
  /\ created["s1"] = 0
  /\ pipe_write_open["s1"]
  /\ Len(commands["s1"]) = 2
  /\ rt_pc["s1"] = "none"

\* C9 (environment isolation): the environment block given to the worker
\* holds, each once, the variables among TEMP, HOME, USER and SYSTEMROOT
\* that the controller has set, with the controller's values, and PATH and
\* PYTHONPATH set to the root directory, and nothing else.
C9_EnvironmentIsolation ==
  \A s \in Sessions :
    worker_env[s] # <<>> =>
      LET block == worker_env[s]
          entries == {block[k] : k \in 1..Len(block)}
          allowed == {"TEMP", "HOME", "USER", "SYSTEMROOT"}
          expected ==
            {[name |-> n, value |-> ctl_env[n]] : n \in allowed \cap DOMAIN ctl_env}
              \cup {[name |-> "PATH", value |-> "C:/p3drun"],
                    [name |-> "PYTHONPATH", value |-> "C:/p3drun"]}
      IN /\ entries = expected
         /\ Len(block) = Cardinality(expected)

\* The block was built in an environment that sets HOME, PATH and a
\* variable off the list, and does not set TEMP.
C9_Witness ==
  /\ worker_env["s1"] # <<>>
  /\ {"HOME", "PATH", "SECRET"} \subseteq DOMAIN ctl_env
  /\ "TEMP" \notin DOMAIN ctl_env
  /\ ctl_env["PATH"] = "x"

\* C10 (contract violations fail loudly): a start_instance call with an
\* instance that is attached, or of another session key or python version,
\* aborts at once and changes no queue, pipe or registry; a call with an
\* identifier that is registered leaves the registry as it was and aborts
\* after the lock is released, with no command sent or queued.
C10_ContractViolations ==
  [][\A s \in Sessions, i \in Insts :
       /\ (/\ ctl = Idle /\ ctl'.op = "start_instance"
           /\ ctl'.s = s /\ ctl'.inst = i
           /\ \/ inst_session[i] # NULL
              \/ InstSessionKey(i) # session_key[s]
              \/ InstPythonVersion(i) # python_version[s])
            => (/\ aborted' # ""
                /\ UNCHANGED <<commands, wire, submitted, instances>>)
       /\ (/\ ctl = Idle /\ ctl'.op = "start_instance"
           /\ ctl'.s = s /\ ctl'.inst = i
           /\ InstanceId(i) \in DOMAIN instances[s])
            => UNCHANGED <<commands, wire, submitted, instances>>
       /\ (/\ ctl.op = "start_instance" /\ ctl.pc = "locked"
           /\ ctl.s = s /\ ctl.inst = i /\ ctl' # ctl)
            => (/\ instances_lock'[s] = "free"
                /\ UNCHANGED <<aborted, commands, wire, submitted, instances>>)
       /\ (/\ ctl.op = "start_instance" /\ ctl.pc = "released"
           /\ ctl.s = s /\ ctl.inst = i /\ ctl' # ctl
           /\ instances[s][InstanceId(i)] # i)
            => (/\ aborted' # ""
                /\ UNCHANGED <<commands, wire, submitted, instances>>)]_vars

\* start_instance(c) aborted on its insertion: a holds c's identifier.
C10_Witness ==
  /\ aborted = "inserted"
  /\ ctl.inst = "c"
  /\ instances[ctl.s][1] = "a"
  /\ ~Registered("c", ctl.s)

\* C11 (terminate_instance guard): terminate_instance(inst) on Session s
\* first submits one terminate_instance command with inst's identifier,
\* written to the pipe when s is PS_running and appended to the queue
\* otherwise, and leaves every registry and back-reference as it was; its
\* step under the lock detaches inst (back-reference cleared, identifier
\* erased from the registry of s) when inst is attached to s, and changes
\* no registry and no back-reference when it is not; nothing more is
\* submitted before the call returns.
C11_TerminateGuard ==
  [][\A s \in Sessions, i \in Insts :
       /\ (/\ ctl = Idle /\ ctl'.op = "terminate_instance"
           /\ ctl'.s = s /\ ctl'.inst = i)
            => LET n == Len(submitted[s]) + 1
                   d == submitted'[s][n].doc
               IN /\ Len(submitted'[s]) = n
                  /\ SubSeq(submitted'[s], 1, n - 1) = submitted[s]
                  /\ d.cmd = "terminate_instance" /\ d.id = InstanceId(i)
                  /\ IF python_state[s] = PS_running
                     THEN wire'[s] = Append(wire[s], d)
                          /\ commands'[s] = commands[s]
                     ELSE commands'[s] = Append(commands[s], d)
                          /\ wire'[s] = wire[s]
                  /\ UNCHANGED <<instances, inst_session>>
       /\ (/\ ctl.op = "terminate_instance" /\ ctl.s = s /\ ctl.inst = i
           /\ ctl.pc = "sent" /\ ctl'.pc = "locked")
            => /\ UNCHANGED <<submitted, wire, commands>>
               /\ IF inst_session[i] = s
                  THEN /\ inst_session' = [inst_session EXCEPT ![i] = NULL]
                       /\ InstanceId(i) \notin DOMAIN instances'[s]
                       /\ \A k \in DOMAIN instances[s] \ {InstanceId(i)} :
                            /\ k \in DOMAIN instances'[s]
                            /\ instances'[s][k] = instances[s][k]
                       /\ \A t \in Sessions \ {s} : instances'[t] = instances[t]
                  ELSE UNCHANGED <<instances, inst_session>>
       /\ (/\ ctl.op = "terminate_instance" /\ ctl.s = s /\ ctl.inst = i
           /\ ctl.pc = "locked" /\ ctl' = Idle)
            => UNCHANGED <<submitted, wire, commands, instances, inst_session>>
    ]_vars

\* terminate_instance(a) was called on s1 while a is attached to s2 and
\* another instance is registered on s1: its step under the lock has run
\* and left both registries and the back-reference alone.
C11_Witness ==
  /\ ctl.op = "terminate_instance" /\ ctl.pc = "locked"
  /\ ctl.s = "s1" /\ ctl.inst = "a"
  /\ inst_session["a"] = "s2" /\ Registered("a", "s2")
  /\ instances["s1"] # EmptyMap
  /\ submitted["s1"][Len(submitted["s1"])].doc.id = InstanceId("a")

\* C12 (queue unused once running): while a Session is PS_running and
\* the controller is not inside start_p3dpython, its queue is empty and
\* the documents written to its pipe begin with every command submitted
\* so far, in the order of submission; between calls, until the
\* destructor is called, the documents written are exactly the commands
\* submitted.  A command submitted while the Session is PS_running is
\* appended to the documents written, in that step, and the queue stays
\* as it was.
C12_QueueUnusedOnceRunning ==
  /\ [](\A s \in Sessions :
          (python_state[s] = PS_running /\ ~Draining(s)) =>
            /\ commands[s] = <<>>
            /\ Len(wire[s]) >= Len(submitted[s])
            /\ SubSeq(wire[s], 1, Len(submitted[s])) = Docs(submitted[s])
            /\ (ctl = Idle /\ ~destroyed[s]) => wire[s] = Docs(submitted[s]))
  /\ [][\A s \in Sessions :
          (python_state[s] = PS_running /\ submitted'[s] # submitted[s]) =>
            /\ Len(submitted'[s]) = Len(submitted[s]) + 1
            /\ wire'[s] = Append(wire[s], submitted'[s][Len(submitted'[s])].doc)
            /\ commands'[s] = commands[s]]_vars

\* One command was queued and written by the drain, and two more were
\* submitted and written while the Session was PS_running.
C12_Witness ==
  /\ python_state["s1"] = PS_running /\ ctl = Idle /\ ~destroyed["s1"]
  /\ Len(drained["s1"]) = 1
  /\ Len(submitted["s1"]) = 3
  /\ submitted["s1"][3].st = PS_running
  /\ Len(wire["s1"]) = 3

\* The part of C13 about the direction of the moves: _python_state changes
\* only from PS_init to PS_running, in a step in which CreateProcess
\* succeeds.
C13_ForwardOnly ==
  [][\A s \in Sessions :
       python_state'[s] # python_state[s] =>
         /\ python_state[s] = PS_init /\ python_state'[s] = PS_running
         /\ created'[s] = created[s] + 1]_vars

\* C13 (lifecycle state machine), as claimed: the state of a Session takes
\* its values in order, PS_init to PS_running on a successful
\* CreateProcess and never back, and it leaves PS_running once the worker
\* has stopped: between calls, a Session whose worker has ended and whose
\* read thread has handled the disconnect and returned is not PS_running.
C13_LifecycleStateMachine ==
  /\ [][\A s \in Sessions :
          python_state'[s] # python_state[s] =>
            /\ python_state[s] # PS_running
            /\ python_state'[s] # PS_init]_vars
  /\ [](\A s \in Sessions :
          (/\ p3dpython[s] = "exited"
           /\ rt_terminated[s] /\ rt_pc[s] = "done"
           /\ ctl = Idle /\ ~destroyed[s])
            => python_state[s] # PS_running)

\* C14 (teardown terminates): the destructor of a Session whose read
\* thread was started waits for the thread only with the flag cleared and
\* the read pipe closed; when the thread is scheduled fairly the wait
\* always ends, wherever the thread was (before a read, in a read, in
\* rt_terminate or returned), and the destructor returns; the thread
\* handle is closed at most once, and exactly once when a destructor of
\* such a Session has returned.  (The wait is followed on s1, the Session
\* whose threads run.  A Session whose CreateThread returned NULL has no
\* read thread.)
C14_TeardownTerminates ==
  /\ [](\A s \in Sessions :
          /\ InDestructor(s, "join") =>
               (~read_thread_continue[s] /\ ~pipe_read_open[s] /\ joined[s] = 0)
          /\ joined[s] <= 1
          /\ destroyed[s] => joined[s] = (IF rt_pc[s] # "none" THEN 1 ELSE 0))
  /\ \A s \in {"s1"} :
       (InDestructor(s, "join") /\ rt_pc[s] # "none")
         ~> (destroyed[s] /\ rt_pc[s] = "done")

\* The destructor waits for the read thread while the thread is inside
\* the loop of rt_terminate with a request still to add.
C14_Witness ==
  /\ InDestructor("s1", "join")
  /\ rt_pc["s1"] = "sweep"
  /\ ii["s1"] = 0 /\ Cardinality(DOMAIN icopy["s1"]) = 1

\* The destructor waits for the read thread while the thread is in a
\* read.
C14_WitnessInRead ==
  InDestructor("s1", "join") /\ rt_pc["s1"] = "read"

\* The positions of the exit command among the documents written to the
\* pipe of Session s.
ExitPositions(s) == {k \in 1..Len(wire[s]) : wire[s][k].cmd = "exit"}

\* C15 (exit command is last): no exit command is on the pipe of a Session
\* before its destructor is called; from the first step of the destructor
\* of a PS_running Session on, the documents written are the commands
\* submitted followed by one exit command, the only one, and both pipes
\* are closed; a destructor of a Session that is not PS_running writes
\* nothing.  Once the destructor has closed the pipe no document is
\* written to it.
C15_ExitCommandIsLast ==
  /\ [](\A s \in Sessions :
          IF (ctl.op = "destructor" /\ ctl.s = s) \/ destroyed[s]
          THEN IF python_state[s] = PS_running
               THEN /\ wire[s] = Docs(submitted[s]) \o <<ExitDoc>>
                    /\ ExitPositions(s) = {Len(wire[s])}
                    /\ ~pipe_write_open[s] /\ ~pipe_read_open[s]
               ELSE wire[s] = <<>>
          ELSE ExitPositions(s) = {})
  /\ [][\A s \in Sessions :
          ((ctl.op = "destructor" /\ ctl.s = s) \/ destroyed[s])
            => wire'[s] = wire[s]]_vars

\* The destructor of a PS_running Session has returned: the exit command
\* follows three commands, the last of them written directly.
C15_Witness ==
  /\ destroyed["s1"] /\ python_state["s1"] = PS_running
  /\ Len(submitted["s1"]) = 3 /\ submitted["s1"][3].st = PS_running
  /\ Len(wire["s1"]) = 4 /\ wire["s1"][4] = ExitDoc

\* C16 (stop notifications only for worker-initiated disconnect), as
\* claimed: the read thread goes into rt_terminate only on a read that
\* fails while no destructor of the Session is running, and no stop
\* request is added to an instance after a read that failed while a
\* destructor had closed the pipe.
C16_StopOnlyForWorkerDisconnect ==
  [][\A s \in Sessions :
       /\ (rt_pc[s] = "read" /\ rt_pc'[s] = "rt_terminate")
            => ~(ctl.op = "destructor" /\ ctl.s = s)
       /\ \A i \in Insts :
            requests'[s][i] # requests[s][i] => ~rt_on_closed[s]]_vars

\* The part of C16 about the notifications alone: no stop request is added
\* to an instance after a read that failed while a destructor had closed
\* the pipe.
C16_NoStopOnTeardown ==
  [][\A s \in Sessions, i \in Insts :
       requests'[s][i] # requests[s][i] => ~rt_on_closed[s]]_vars

\* The controller thread is between ACQUIRE_LOCK and RELEASE_LOCK of
\* Session s.
ControllerInLock(s) ==
  /\ ctl.op \in {"start_instance", "terminate_instance"}
  /\ ctl.s = s /\ ctl.pc = "locked"

\* The read thread of Session s is between ACQUIRE_LOCK and RELEASE_LOCK.
ReaderInLock(s) == rt_pc[s] = "locked"

\* C17 (registry lock discipline): the two threads are never both between
\* ACQUIRE_LOCK and RELEASE_LOCK of a Session, and the lock is held by a
\* thread exactly while it is there; unless the process has aborted, the
\* thread that holds the lock can take its step to RELEASE_LOCK.  The
\* registry and the back-references change, and the copy of rt_terminate
\* is taken, only in a step that takes the lock from free.  A thread does
\* not hold the lock in a step in which it writes to the pipe or adds a
\* stop request, nor while it reads the pipe or waits for the read thread.
C17_RegistryLockDiscipline ==
  /\ [](\A s \in Sessions :
          /\ ~(ControllerInLock(s) /\ ReaderInLock(s))
          /\ instances_lock[s] = "controller" <=> ControllerInLock(s)
          /\ instances_lock[s] = "reader" <=> ReaderInLock(s)
          /\ (ControllerInLock(s) /\ aborted = "") =>
               \/ ENABLED StartInstanceRelease(s, ctl.inst)
               \/ ENABLED TerminateInstanceFinish(s, ctl.inst)
          /\ (ReaderInLock(s) /\ aborted = "") => ENABLED RtRelease(s)
          /\ rt_pc[s] \in {"read", "sweep"} => instances_lock[s] # "reader"
          /\ InDestructor(s, "join") => instances_lock[s] # "controller")
  /\ [][\A s \in Sessions :
          /\ (instances'[s] # instances[s]
                \/ \E i \in Insts : inst_session'[i] # inst_session[i]
                                      /\ s \in {inst_session[i], inst_session'[i]})
               => (instances_lock[s] = "free" /\ instances_lock'[s] = "controller")
          /\ (rt_pc[s] = "rt_terminate" /\ rt_pc'[s] # rt_pc[s])
               => (/\ instances_lock[s] = "free" /\ instances_lock'[s] = "reader"
                   /\ icopy'[s] = instances[s])
          /\ icopy'[s] # icopy[s] => rt_pc[s] = "rt_terminate"
          /\ wire'[s] # wire[s] => instances_lock'[s] # "controller"
          /\ requests'[s] # requests[s] =>
               (instances_lock[s] # "reader" /\ instances_lock'[s] # "reader")
     ]_vars

\* The read thread holds the lock for its copy while terminate_instance,
\* which has written its command, waits for the lock; an instance is
\* registered.
C17_Witness ==
  /\ ReaderInLock("s1") /\ instances_lock["s1"] = "reader"
  /\ ctl.op = "terminate_instance" /\ ctl.s = "s1" /\ ctl.pc = "sent"
  /\ instances["s1"] # EmptyMap

\* The set of the elements of a sequence.
Range(q) == {q[k] : k \in 1..Len(q)}

\* C18 (command ownership): no command is deleted twice; the commands
\* deleted and the commands in the queue are the commands submitted, and
\* they do not overlap except inside the loop of start_p3dpython, where the
\* pointers of the commands deleted stay in the queue until it is cleared;
\* every command written to the pipe is deleted by the step that writes
\* it or, in that loop, by the next step; a command is deleted unwritten
\* only by the loop of the destructor; and when the destructor has
\* returned the queue is empty and every command submitted has been
\* deleted.
C18_CommandOwnership ==
  /\ [](\A s \in Sessions :
          /\ Cardinality(Range(freed[s])) = Len(freed[s])
          /\ Cardinality(Range(commands[s])) = Len(commands[s])
          /\ IF Draining(s)
             THEN Range(freed[s]) \cap Range(commands[s])
                    = {commands[s][k] : k \in 1..ctl.ci}
             ELSE Range(freed[s]) \cap Range(commands[s]) = {}
          /\ Range(freed[s]) \cup Range(commands[s]) = Range(Docs(submitted[s]))
          /\ Range(wire[s]) \ (Range(freed[s]) \cup {ExitDoc})
               = IF InStartP3dpython(s, "delete")
                 THEN {commands[s][ctl.ci + 1]} ELSE {}
          /\ Range(freed[s]) \ Range(wire[s]) # {} =>
               (InDestructor(s, "join") \/ destroyed[s])
          /\ destroyed[s] =>
               (commands[s] = <<>> /\ Range(freed[s]) = Range(Docs(submitted[s]))))
  /\ [][\A s \in Sessions :
          /\ Len(freed'[s]) >= Len(freed[s])
          /\ SubSeq(freed'[s], 1, Len(freed[s])) = freed[s]
          /\ LET written == Range(wire'[s]) \ (Range(wire[s]) \cup {ExitDoc})
                 deleted == Range(freed'[s]) \ Range(freed[s])
             IN (written # {} \/ deleted # {}) =>
                  IF InDestructor(s, "free")
                  THEN written = {} /\ deleted = Range(commands[s])
                  ELSE IF InStartP3dpython(s, "drain")
                  THEN deleted = {} /\ written = {commands[s][ctl.ci + 1]}
                  ELSE IF InStartP3dpython(s, "delete")
                  THEN written = {} /\ deleted = {commands[s][ctl.ci + 1]}
                  ELSE written = deleted]_vars

\* The destructor of a PS_running Session has returned: one command was
\* written by the drain and two by send_command, and the three have been
\* deleted.
C18_Witness ==
  /\ destroyed["s1"] /\ python_state["s1"] = PS_running
  /\ Len(drained["s1"]) = 1
  /\ Len(freed["s1"]) = 3
  /\ freed["s1"] = Docs(submitted["s1"])

\* The destructor of a Session that never ran Python has returned: the
\* two commands of its queue were deleted unwritten.
C18_WitnessUnsent ==
  /\ destroyed["s1"] /\ python_state["s1"] = PS_init
  /\ wire["s1"] = <<>> /\ Len(freed["s1"]) = 2 /\ commands["s1"] = <<>>

\* The part of C19 about the agreement that holds: while the lock of a
\* Session is free, the instances registered on it are the instances whose
\* back-reference is the Session, but for the instance of a start_instance
\* whose insertion failed.
C19_Agree ==
  \A s \in Sessions :
    instances_lock[s] = "free" =>
      \A i \in Insts :
        \/ Registered(i, s) <=> inst_session[i] = s
        \/ (/\ ctl.op = "start_instance" /\ ctl.s = s /\ ctl.inst = i
            /\ ~ctl.inserted /\ ctl.pc \in {"released", "abort"})

\* C19 (registry and back-reference agree), as claimed: while the lock of
\* a Session is free the instances registered on it are the instances
\* whose back-reference is the Session, and when the destructor of a
\* Session has returned no instance has a back-reference to it.
C19_RegistryBackReferenceAgree ==
  \A s \in Sessions :
    /\ instances_lock[s] = "free" =>
         \A i \in Insts : Registered(i, s) <=> inst_session[i] = s
    /\ destroyed[s] => \A i \in Insts : inst_session[i] # s

\* C20 (no reader activity after teardown): when the destructor of a
\* Session has returned, its read thread was never started or has
\* returned, and the lock is free; from then on the thread takes no step:
\* it does not take the lock, copy the registry or add a stop request.
C20_NoReaderAfterTeardown ==
  /\ [](\A s \in Sessions :
          destroyed[s] =>
            (rt_pc[s] \in {"none", "done"} /\ instances_lock[s] = "free"))
  /\ [][\A s \in Sessions :
          destroyed[s] =>
            /\ ~ENABLED ReaderStep(s)
            /\ rt_pc'[s] = rt_pc[s]
            /\ instances_lock'[s] = instances_lock[s]
            /\ icopy'[s] = icopy[s]
            /\ requests'[s] = requests[s]]_vars

\* The destructor has returned after waiting for a read thread whose read
\* failed on the pipe the destructor had closed and which added its stop
\* request before it returned.
C20_Witness ==
  /\ destroyed["s1"] /\ joined["s1"] = 1
  /\ rt_pc["s1"] = "done" /\ rt_on_closed["s1"]
  /\ requests["s1"]["a"] = 1
====
